---- MODULE Spec2Model ----
(***************************************************************************)
(* Model of homework.py: the Telegram notifier that polls the homework     *)
(* review API.  The state is that of main(): the three module-level        *)
(* credentials, the two dedup strings, the poll cursor and the position    *)
(* in the try / except / finally statement of the poll loop.               *)
(*                                                                         *)
(* The Russian string literals of the source are written here in an ASCII  *)
(* transliteration (the parser accepts ASCII only); the transliteration    *)
(* is one-to-one on the literals, so equality of messages is preserved.    *)
(***************************************************************************)
EXTENDS Integers, Sequences, FiniteSets, TLC

VARIABLES
    PRACTICUM_TOKEN,             \* module globals read from the environment
    TELEGRAM_TOKEN,
    TELEGRAM_CHAT_ID,
    pc,                          \* position in main()
    last_sended_error_message,   \* main's locals
    last_sended_status_message,
    timestamp,
    error,                       \* the exception in flight, NoError if none
    exit_message,                \* text of the TokenError that ended main
    check_tokens_calls,          \* number of calls of check_tokens
    api_calls,                   \* number of calls of get_api_answer
    sleeps,                      \* number of calls of time.sleep
    cur,                         \* what the running iteration did so far
    prev,                        \* what the previous iteration did
    delivered_status,            \* last status message Telegram accepted
    delivered_error,             \* last diagnostic Telegram accepted
    call,                        \* a function called on its own, its argument
    results                      \* what the calls of that function gave

vars == <<PRACTICUM_TOKEN, TELEGRAM_TOKEN, TELEGRAM_CHAT_ID, pc,
          last_sended_error_message, last_sended_status_message, timestamp,
          error, exit_message, check_tokens_calls, api_calls, sleeps,
          cur, prev, delivered_status, delivered_error, call, results>>

\* what the recipient got
delivered == <<delivered_status, delivered_error>>

\* the function called on its own, not used by main()
standalone == <<call, results>>

-----------------------------------------------------------------------------
(* Bounds *)

\* iterations of the poll loop that are explored
MaxIter == 3
\* longest homeworks list the API returns
MaxHomeworks == 2

-----------------------------------------------------------------------------
(* Python values *)

NoneV == [t |-> "none"]
StrV(s) == [t |-> "str", v |-> s]
IntV(i) == [t |-> "int", v |-> i]
ListV(s) == [t |-> "list", v |-> s]
DictV(f) == [t |-> "dict", v |-> f]

\* str(type(x)) of a value
TypeName(x) ==
    "<class '" \o (IF x.t = "none" THEN "NoneType" ELSE x.t) \o "'>"

\* bool(x) for the values used
Truthy(x) ==
    CASE x.t = "none" -> FALSE
      [] x.t = "str" -> x.v # ""
      [] x.t = "list" -> Len(x.v) > 0
      [] x.t = "dict" -> DOMAIN x.v # {}
      [] x.t = "int" -> x.v # 0

\* ", ".join(names)
RECURSIVE Join(_)
Join(names) ==
    IF Len(names) = 0 THEN ""
    ELSE IF Len(names) = 1 THEN names[1]
    ELSE names[1] \o ", " \o Join(Tail(names))

(* Exceptions and results of calls *)

NoError == [cls |-> "", text |-> ""]
Exc(cls, text) == [cls |-> cls, text |-> text]
Raise(cls, text) == [raised |-> TRUE, exc |-> Exc(cls, text)]
Return(value) == [raised |-> FALSE, value |-> value]

\* str(error): KeyError shows the repr of its argument
PyStr(exc) ==
    IF exc.cls = "KeyError" THEN "'" \o exc.text \o "'" ELSE exc.text

-----------------------------------------------------------------------------
(* Constants of the program *)

RETRY_PERIOD == 600

VerdictApproved == "Rabota proverena: revyueru vsyo ponravilos. Ura!"
VerdictReviewing == "Rabota vzyata na proverku revyuerom."
VerdictRejected == "Rabota proverena: u revyuera est zamechaniya."

HOMEWORK_VERDICTS ==
    [s \in {"approved", "reviewing", "rejected"} |->
        CASE s = "approved" -> VerdictApproved
          [] s = "reviewing" -> VerdictReviewing
          [] s = "rejected" -> VerdictRejected]

-----------------------------------------------------------------------------
(* The environment: what the collaborators can answer *)

\* os.getenv: unset, empty or set
EnvValues == {NoneV, StrV(""), StrV("secret")}

\* int(time.time()) at process start
StartTimes == {1699999000}

\* current_date values the server reports
ServerDates == {1700000000, 1700000100}

HomeworkNames == {"hw1"}
Statuses == {"approved", "rejected", "in_review"}

\* homework records the server sends: complete ones with a known or an
\* unknown status, and one without its status
HomeworkRecords ==
    {DictV([k \in {"homework_name", "status"} |->
              IF k = "homework_name" THEN n ELSE s]) :
         n \in HomeworkNames, s \in Statuses}
    \cup {DictV([k \in {"homework_name"} |-> n]) : n \in HomeworkNames}

HomeworkLists ==
    UNION {[1..n -> HomeworkRecords] : n \in 0..MaxHomeworks}

\* decoded JSON bodies: mappings with and without each of the two keys
Bodies ==
    {DictV([k \in {} |-> 0])}
    \cup {DictV([k \in {"current_date"} |-> d]) : d \in ServerDates}
    \cup {DictV([k \in {"homeworks"} |-> ListV(l)]) : l \in HomeworkLists}
    \cup {DictV([k \in {"homeworks", "current_date"} |->
                  IF k = "homeworks" THEN ListV(l) ELSE d]) :
              l \in HomeworkLists, d \in ServerDates}

\* what requests.get does: it raises, or answers with a status code and a
\* body whose decoding (response.json()) raises or gives a value
HttpOutcomes ==
    {[raises |-> TRUE, text |-> "connection refused"]}
    \cup {[raises |-> FALSE, status_code |-> 500, json |-> Return(NoneV)]}
    \cup {[raises |-> FALSE, status_code |-> 200,
           json |-> Raise("JSONDecodeError", "Expecting value")]}
    \cup {[raises |-> FALSE, status_code |-> 200, json |-> Return(b)] :
              b \in Bodies}

\* what requests.get did, as the iteration's record keeps it
HttpKind(http) ==
    IF http.raises THEN "RequestException"
    ELSE IF http.status_code # 200 THEN "HTTP " \o ToString(http.status_code)
    ELSE IF http.json.raised THEN http.json.exc.cls
    ELSE "ok"

\* what bot.send_message does: it returns, it raises ApiTelegramException
\* (Telegram refused the request) or it raises another exception (the
\* connection to Telegram failed)
DeliveryOutcomes ==
    {Return(NoneV),
     Raise("ApiTelegramException", "Forbidden: bot was blocked by the user"),
     Raise("ConnectionError", "telegram unreachable")}

-----------------------------------------------------------------------------
(* The functions of homework.py *)

\* [name for name, value in items if not value]
RECURSIVE MissingData(_)
MissingData(items) ==
    IF Len(items) = 0 THEN <<>>
    ELSE (IF Truthy(items[1][2]) THEN <<>> ELSE <<items[1][1]>>)
         \o MissingData(Tail(items))

\* a guard that reports the first missing credential only
check_tokens_FirstOnly(practicum_token, telegram_token, telegram_chat_id) ==
    LET required_tokens == <<
            <<"PRACTICUM_TOKEN", practicum_token>>,
            <<"TELEGRAM_TOKEN", telegram_token>>,
            <<"TELEGRAM_CHAT_ID", telegram_chat_id>> >>
        missing_data == MissingData(required_tokens)
    IN  IF Len(missing_data) > 0
        THEN Raise("TokenError", "Otsutstvuyut dannye: " \o missing_data[1])
        ELSE Return(NoneV)

\* check_tokens() on the values of the three globals
check_tokens(practicum_token, telegram_token, telegram_chat_id) ==
    LET required_tokens == <<
            <<"PRACTICUM_TOKEN", practicum_token>>,
            <<"TELEGRAM_TOKEN", telegram_token>>,
            <<"TELEGRAM_CHAT_ID", telegram_chat_id>> >>
        missing_data == MissingData(required_tokens)
    IN  IF Len(missing_data) > 0
        THEN Raise("TokenError",
                   "Otsutstvuyut dannye: " \o Join(missing_data))
        ELSE Return(NoneV)

\* send_message(bot, message): the outcome is that of bot.send_message
send_message(message, delivery) ==
    IF delivery.raised THEN delivery ELSE Return(NoneV)

\* the query string parameters of the request
Payload(ts) == [from_date |-> ToString(ts)]

\* a client that swallows the request exception and returns nothing
get_api_answer_Swallow(ts, http) ==
    IF http.raises
    THEN Return(NoneV)
    ELSE IF http.status_code # 200
    THEN Raise("ValueError",
               "HTTP oshibka pri zaprose k endpointu API. "
               \o "(from get_api_answer)")
    ELSE http.json

\* get_api_answer(timestamp), http being what requests.get does
get_api_answer(ts, http) ==
    IF http.raises
    THEN Raise("Exception",
               "Oshibka pri zaprose k API: " \o http.text
               \o ". (from get_api_answer)")
    ELSE IF http.status_code # 200
    THEN Raise("ValueError",
               "HTTP oshibka pri zaprose k endpointu API. "
               \o "(from get_api_answer)")
    ELSE http.json

\* a validator that does not look at the type of homeworks
check_response_AnyHomeworks(response) ==
    IF response.t # "dict"
    THEN Raise("TypeError",
               "Tip otveta API " \o TypeName(response)
               \o ". Ozhidaemyy - slovar. (from check_response)")
    ELSE IF "homeworks" \notin DOMAIN response.v
    THEN Raise("KeyError",
               "V otvete API otsutstvuet ozhidaemyy klyuch: homeworks. "
               \o "(from check_response)")
    ELSE Return(NoneV)

\* check_response(response)
check_response(response) ==
    IF response.t # "dict"
    THEN Raise("TypeError",
               "Tip otveta API " \o TypeName(response)
               \o ". Ozhidaemyy - slovar. (from check_response)")
    ELSE IF "homeworks" \notin DOMAIN response.v
    THEN Raise("KeyError",
               "V otvete API otsutstvuet ozhidaemyy klyuch: homeworks. "
               \o "(from check_response)")
    ELSE IF response.v["homeworks"].t # "list"
    THEN Raise("TypeError",
               "Pod klyuchem homeworks poluchen "
               \o TypeName(response.v["homeworks"])
               \o ". Ozhidaemyy tip - spisok. (from check_response)")
    ELSE Return(NoneV)

\* [key for key in keys if key not in homework]
RECURSIVE MissingKeys(_, _)
MissingKeys(keys, homework) ==
    IF Len(keys) = 0 THEN <<>>
    ELSE (IF keys[1] \in DOMAIN homework.v THEN <<>> ELSE <<keys[1]>>)
         \o MissingKeys(Tail(keys), homework)

\* an interpreter that looks at the status before it looks for the keys
parse_status_StatusFirst(homework) ==
    IF homework.t # "dict"
    THEN Raise("TypeError",
               "argument of type '" \o homework.t \o "' is not iterable")
    ELSE IF "status" \in DOMAIN homework.v
            /\ homework.v["status"] \notin DOMAIN HOMEWORK_VERDICTS
    THEN Raise("ValueError",
               "Neozhidannyy status domashney raboty: "
               \o homework.v["status"] \o ". (from parse_status)")
    ELSE
    LET missing_keys == MissingKeys(<<"homework_name", "status">>, homework)
    IN  IF Len(missing_keys) > 0
        THEN Raise("KeyError",
                   "Otsutstvuyut ozhidaemye klyuchi v obekte DZ: "
                   \o Join(missing_keys) \o ". (from parse_status)")
        ELSE Return("Izmenilsya status proverki raboty \""
                    \o homework.v["homework_name"] \o "\". "
                    \o HOMEWORK_VERDICTS[homework.v["status"]])

\* parse_status(homework)
parse_status(homework) ==
    IF homework.t # "dict"
    THEN \* the test "key not in homework" raises on a non-container
         Raise("TypeError",
               "argument of type '" \o homework.t \o "' is not iterable")
    ELSE
    LET missing_keys == MissingKeys(<<"homework_name", "status">>, homework)
    IN  IF Len(missing_keys) > 0
        THEN Raise("KeyError",
                   "Otsutstvuyut ozhidaemye klyuchi v obekte DZ: "
                   \o Join(missing_keys) \o ". (from parse_status)")
        ELSE
        LET homework_name == homework.v["homework_name"]
            status == homework.v["status"]
        IN  IF status \notin DOMAIN HOMEWORK_VERDICTS
            THEN Raise("ValueError",
                       "Neozhidannyy status domashney raboty: " \o status
                       \o ". (from parse_status)")
            ELSE Return("Izmenilsya status proverki raboty \""
                        \o homework_name \o "\". "
                        \o HOMEWORK_VERDICTS[status])

\* a loop that never moves its cursor
GetCurrentDate_Keep(response, ts) == ts

\* response.get('current_date', timestamp)
GetCurrentDate(response, ts) ==
    IF "current_date" \in DOMAIN response.v
    THEN response.v["current_date"] ELSE ts

\* the diagnostic of the handler "except Exception as error"
Diagnostic(exc) == "Sboy v rabote programmy: " \o PyStr(exc)

\* a loop without the comparison of line 147
StatusChanged_Always(last_status, message) == TRUE

\* line 147: the status message is sent when it differs from the last one
StatusChanged(last_status, message) == last_status # message

\* a loop that records the status message before sending it
StatusAfterSend_Regardless(last_status, message, sent) == message

\* lines 148-149: the assignment is reached only when send_message returns
StatusAfterSend(last_status, message, sent) ==
    IF sent.raised THEN last_status ELSE message

\* a loop that advances the cursor although send_message raised
TimestampAfterSend_Regardless(response, ts, sent) ==
    IF "current_date" \in DOMAIN response.v
    THEN response.v["current_date"] ELSE ts

\* lines 148-153: the cursor assignment is reached only when send_message
\* returns
TimestampAfterSend(response, ts, sent) ==
    IF sent.raised THEN ts ELSE GetCurrentDate(response, ts)

\* a handler without the comparison of line 159
ErrorChanged_Always(last_error, message) == TRUE

\* line 159: the diagnostic is sent when it differs from the last one
ErrorChanged(last_error, message) == last_error # message

\* line 160: suppress(ApiTelegramException) swallows that class only
Suppressed(exc) == exc.cls = "ApiTelegramException"

\* a handler that records the diagnostic before sending it
ErrorAfterSend_Regardless(last_error, message, sent) == message

\* lines 160-162: the assignment is reached only when send_message returns
ErrorAfterSend(last_error, message, sent) ==
    IF sent.raised THEN last_error ELSE message

\* line 154: the first handler takes ApiTelegramException only
CaughtAsTelegram(exc) == exc.cls = "ApiTelegramException"

\* line 156: the second handler takes every other Exception
CaughtAsException(exc) == exc # NoError /\ ~CaughtAsTelegram(exc)

\* a loop that forgets the last diagnostic after a pass without exception
ErrorAfterTry_ClearOnSuccess(last_error, exc) ==
    IF exc = NoError THEN "" ELSE last_error

\* lines 137-153: the try block does not assign last_sended_error_message
ErrorAfterTry(last_error, exc) == last_error

\* one invocation of send_message, as the iteration's record keeps it
Sent(kind, message, sent) ==
    [kind |-> kind, message |-> message,
     outcome |-> IF sent.raised THEN sent.exc.cls ELSE "ok"]

\* a loop that takes the last record of the list
FirstHomework_Last(homeworks) == homeworks.v[Len(homeworks.v)]

\* line 144: homeworks[0]
FirstHomework(homeworks) == homeworks.v[1]

\* a try block that starts over after a failure: the cursor and the last
\* status message are forgotten when an exception leaves it before any send
Effects_ResetOnFailure(calls, outbox, status_message, current_date, last_status, ts, exc) ==
    [calls |-> calls, outbox |-> outbox, status_message |-> status_message,
     current_date |-> current_date,
     last_status |-> IF exc # NoError /\ outbox = <<>>
                     THEN "" ELSE last_status,
     timestamp |-> IF exc # NoError /\ outbox = <<>> THEN 0 ELSE ts,
     exc |-> exc]

\* a try block in which a statement after a delivered status message
\* raises
Effects_RaiseAfterSend(calls, outbox, status_message, current_date, last_status, ts, exc) ==
    [calls |-> calls, outbox |-> outbox, status_message |-> status_message,
     current_date |-> current_date, last_status |-> last_status,
     timestamp |-> ts,
     exc |-> IF outbox # <<>> /\ outbox[1].outcome = "ok"
             THEN Exc("AttributeError",
                      "'NoneType' object has no attribute 'get'")
             ELSE exc]

\* the effects of the try block
Effects(calls, outbox, status_message, current_date, last_status, ts, exc) ==
    [calls |-> calls, outbox |-> outbox, status_message |-> status_message,
     current_date |-> current_date, last_status |-> last_status,
     timestamp |-> ts, exc |-> exc]

\* <<current_date>> if the body is a mapping with that key, else <<>>
ReportedDate(response) ==
    IF response.t = "dict" /\ "current_date" \in DOMAIN response.v
    THEN <<response.v["current_date"]>> ELSE <<>>

\* lines 138-153, the body of the try statement
try_block(ts, last_status, http, delivery) ==
    LET answer == get_api_answer(ts, http)
    IN  IF answer.raised
        THEN Effects(<<"get_api_answer">>, <<>>, <<>>, <<>>,
                     last_status, ts, answer.exc)
        ELSE
    LET response == answer.value
        checked == check_response(response)
        calls2 == <<"get_api_answer", "check_response">>
    IN  IF checked.raised
        THEN Effects(calls2, <<>>, <<>>, ReportedDate(response),
                     last_status, ts, checked.exc)
        ELSE
    LET homeworks == response.v["homeworks"]
    IN  IF ~Truthy(homeworks)
        THEN Effects(calls2, <<>>, <<>>, ReportedDate(response),
                     last_status, GetCurrentDate(response, ts), NoError)
        ELSE
    LET homework == FirstHomework(homeworks)
        parsed == parse_status(homework)
        calls3 == Append(calls2, "parse_status")
    IN  IF parsed.raised
        THEN Effects(calls3, <<>>, <<>>, ReportedDate(response),
                     last_status, ts, parsed.exc)
        ELSE
    LET message == parsed.value
    IN  IF ~StatusChanged(last_status, message)
        THEN Effects(calls3, <<>>, <<message>>, ReportedDate(response),
                     last_status, GetCurrentDate(response, ts), NoError)
        ELSE
    LET sent == send_message(message, delivery)
    IN  Effects(Append(calls3, "send_message"),
                <<Sent("status", message, sent)>>,
                <<message>>, ReportedDate(response),
                StatusAfterSend(last_status, message, sent),
                TimestampAfterSend(response, ts, sent),
                IF sent.raised THEN sent.exc ELSE NoError)

\* the passes through the try block for one answer of the server: one for
\* each outcome of bot.send_message if the pass calls send_message, else a
\* single one
PassesThrough(ts, last_status, http) ==
    LET quiet == try_block(ts, last_status, http, Return(NoneV))
    IN  IF quiet.outbox = <<>>
        THEN {quiet}
        ELSE {try_block(ts, last_status, http, delivery) :
                  delivery \in DeliveryOutcomes}

-----------------------------------------------------------------------------
(* The state machine of main() *)

\* no function is called on its own
NoCall == [fn |-> "", arg |-> NoneV]

\* the message of the last invocation of that kind that Telegram accepted,
\* else the one accepted before
LastDelivered(outbox, kind, before) ==
    LET ok == SelectSeq(outbox,
                        LAMBDA m : m.kind = kind /\ m.outcome = "ok")
    IN  IF Len(ok) = 0 THEN before ELSE ok[Len(ok)].message

\* no homeworks list reached line 141
NotSeen == [n |-> -1, head |-> <<>>, later_raises |-> FALSE]

\* the homeworks list the server sent, as the iteration's record keeps it:
\* its length, its first record, and whether parse_status would raise on a
\* record after the first
SeenHomeworks(http) ==
    IF http.raises \/ http.status_code # 200 \/ http.json.raised
    THEN NotSeen
    ELSE LET body == http.json.value
         IN  IF check_response(body).raised
             THEN NotSeen
             ELSE LET l == body.v["homeworks"].v
                  IN  [n |-> Len(l),
                       head |-> IF Len(l) = 0 THEN <<>> ELSE <<l[1]>>,
                       later_raises |->
                           \E i \in 2..Len(l) : parse_status(l[i]).raised]

\* the record of an iteration that has done nothing yet
EmptyLog ==
    [calls |-> <<>>, outbox |-> <<>>, from_date |-> "",
     api |-> "", status_message |-> <<>>, diagnostic |-> <<>>,
     current_date |-> <<>>, failure |-> NoError,
     start_status |-> "", start_error |-> "", start_timestamp |-> 0,
     homeworks |-> NotSeen, slept |-> 0]

\* module import and lines 126-127
Init ==
    /\ PRACTICUM_TOKEN \in EnvValues
    /\ TELEGRAM_TOKEN \in EnvValues
    /\ TELEGRAM_CHAT_ID \in EnvValues
    /\ pc = "check_tokens"
    /\ last_sended_error_message = ""
    /\ last_sended_status_message = ""
    /\ timestamp = 0
    /\ error = NoError
    /\ exit_message = ""
    /\ check_tokens_calls = 0
    /\ api_calls = 0
    /\ sleeps = 0
    /\ cur = EmptyLog
    /\ prev = EmptyLog
    /\ delivered_status = ""
    /\ delivered_error = ""
    /\ call = NoCall
    /\ results = <<>>

\* lines 128-132: the guard, then the bot and the initial cursor
CheckTokens ==
    /\ pc = "check_tokens"
    /\ check_tokens_calls' = check_tokens_calls + 1
    /\ LET result ==
               check_tokens(PRACTICUM_TOKEN, TELEGRAM_TOKEN, TELEGRAM_CHAT_ID)
       IN  IF result.raised
           THEN /\ pc' = "terminated"
                /\ error' = result.exc
                /\ exit_message' = result.exc.text
                /\ UNCHANGED timestamp
           ELSE /\ pc' = "loop"
                /\ timestamp' \in StartTimes
                /\ UNCHANGED <<error, exit_message>>
    /\ UNCHANGED <<PRACTICUM_TOKEN, TELEGRAM_TOKEN, TELEGRAM_CHAT_ID,
                   last_sended_error_message, last_sended_status_message,
                   api_calls, sleeps, cur, prev, delivered, standalone>>

\* lines 136-153: one pass through the try block
TryBlock ==
    /\ pc = "loop"
    /\ api_calls < MaxIter
    /\ \E http \in HttpOutcomes :
       \E e \in PassesThrough(timestamp, last_sended_status_message, http) :
             /\ last_sended_status_message' = e.last_status
             /\ last_sended_error_message' =
                    ErrorAfterTry(last_sended_error_message, e.exc)
             /\ timestamp' = e.timestamp
             /\ error' = e.exc
             /\ delivered_status' =
                    LastDelivered(e.outbox, "status", delivered_status)
             /\ pc' = IF e.exc = NoError THEN "finally" ELSE "except"
             /\ cur' = [EmptyLog EXCEPT
                          !.calls = e.calls,
                          !.outbox = e.outbox,
                          !.from_date = Payload(timestamp).from_date,
                          !.api = HttpKind(http),
                          !.status_message = e.status_message,
                          !.current_date = e.current_date,
                          !.failure = e.exc,
                          !.start_status = last_sended_status_message,
                          !.start_error = last_sended_error_message,
                          !.start_timestamp = timestamp,
                          !.homeworks = SeenHomeworks(http)]
    /\ api_calls' = api_calls + 1
    /\ UNCHANGED <<PRACTICUM_TOKEN, TELEGRAM_TOKEN, TELEGRAM_CHAT_ID,
                   exit_message, check_tokens_calls, sleeps, prev,
                   delivered_error, standalone>>

\* lines 154-155: a Telegram refusal is logged and nothing else
ExceptTelegram ==
    /\ pc = "except"
    /\ CaughtAsTelegram(error)
    /\ pc' = "finally"
    /\ error' = NoError
    /\ UNCHANGED <<PRACTICUM_TOKEN, TELEGRAM_TOKEN, TELEGRAM_CHAT_ID,
                   last_sended_error_message, last_sended_status_message,
                   timestamp, exit_message, check_tokens_calls, api_calls,
                   sleeps, cur, prev, delivered, standalone>>

\* lines 156-162: any other exception becomes a diagnostic; an exception
\* that leaves the handler stays in flight
ExceptException ==
    /\ pc = "except"
    /\ CaughtAsException(error)
    /\ pc' = "finally"
    /\ LET message == Diagnostic(error)
       IN  IF ~ErrorChanged(last_sended_error_message, message)
           THEN /\ error' = NoError
                /\ cur' = [cur EXCEPT !.diagnostic = <<message>>]
                /\ UNCHANGED <<last_sended_error_message, delivered_error>>
           ELSE \E delivery \in DeliveryOutcomes :
                  LET sent == send_message(message, delivery)
                  IN  /\ last_sended_error_message' =
                             ErrorAfterSend(last_sended_error_message,
                                            message, sent)
                      /\ error' = IF sent.raised /\ ~Suppressed(sent.exc)
                                  THEN sent.exc ELSE NoError
                      /\ delivered_error' =
                             LastDelivered(<<Sent("error", message, sent)>>,
                                           "error", delivered_error)
                      /\ cur' = [cur EXCEPT
                                   !.diagnostic = <<message>>,
                                   !.calls = Append(@, "send_message"),
                                   !.outbox =
                                       Append(@, Sent("error", message, sent))]
    /\ UNCHANGED <<PRACTICUM_TOKEN, TELEGRAM_TOKEN, TELEGRAM_CHAT_ID,
                   last_sended_status_message, timestamp, exit_message,
                   check_tokens_calls, api_calls, sleeps, prev,
                   delivered_status, standalone>>

\* a loop that sleeps in an else clause: only after a pass without failure
Finally_SleepOnSuccessOnly ==
    /\ pc = "finally"
    /\ sleeps' = IF cur.failure = NoError THEN sleeps + 1 ELSE sleeps
    /\ prev' = [cur EXCEPT !.slept = IF cur.failure = NoError
                                     THEN RETRY_PERIOD ELSE 0,
                            !.homeworks = NotSeen]
    /\ cur' = EmptyLog
    /\ pc' = IF error = NoError THEN "loop" ELSE "crashed"
    /\ UNCHANGED <<PRACTICUM_TOKEN, TELEGRAM_TOKEN, TELEGRAM_CHAT_ID,
                   last_sended_error_message, last_sended_status_message,
                   timestamp, error, exit_message, check_tokens_calls,
                   api_calls, delivered, standalone>>

\* lines 163-165: the sleep; an exception still in flight then leaves main
Finally ==
    /\ pc = "finally"
    /\ sleeps' = sleeps + 1
    /\ prev' = [cur EXCEPT !.slept = RETRY_PERIOD, !.homeworks = NotSeen]
    /\ cur' = EmptyLog
    /\ pc' = IF error = NoError THEN "loop" ELSE "crashed"
    /\ UNCHANGED <<PRACTICUM_TOKEN, TELEGRAM_TOKEN, TELEGRAM_CHAT_ID,
                   last_sended_error_message, last_sended_status_message,
                   timestamp, error, exit_message, check_tokens_calls,
                   api_calls, delivered, standalone>>

Next ==
    \/ CheckTokens
    \/ TryBlock
    \/ ExceptTelegram
    \/ ExceptException
    \/ Finally

Spec == Init /\ [][Next]_vars

-----------------------------------------------------------------------------
(* The functions called on their own *)

\* homework records given to parse_status: each of homework_name, status
\* and lesson_name present or not, known and unknown statuses
ParseNames == {"hw1", "hw2"}
ParseStatuses == {"approved", "reviewing", "rejected", "in_review", ""}

ParseInputs ==
    {DictV([k \in K |->
              CASE k = "homework_name" -> n
                [] k = "status" -> st
                [] k = "lesson_name" -> "Sprint 1"]) :
         K \in SUBSET {"homework_name", "status", "lesson_name"},
         n \in ParseNames, st \in ParseStatuses}

\* decoded bodies given to check_response: values that are no mapping, and
\* mappings with and without homeworks (a list or not) and current_date
HomeworksInputs ==
    {StrV("not-a-list"), NoneV, DictV([k \in {} |-> 0]), ListV(<<>>),
     ListV(<<DictV([k \in {"homework_name", "status"} |->
                      IF k = "homework_name" THEN "hw1" ELSE "approved"])>>)}

CheckInputs ==
    {NoneV, ListV(<<>>), StrV("error"), IntV(0)}
    \cup {DictV([k \in {} |-> 0]),
          DictV([k \in {"current_date"} |-> 1700000000])}
    \cup {DictV([k \in {"homeworks"} |-> h]) : h \in HomeworksInputs}
    \cup {DictV([k \in {"homeworks", "current_date"} |->
                  IF k = "homeworks" THEN h ELSE 1700000000]) :
              h \in HomeworksInputs}

\* each function is called twice on its argument
CallsPerArgument == 2

\* a function and the argument it is called on; main() is not run
InitFunctions ==
    /\ PRACTICUM_TOKEN = StrV("secret")
    /\ TELEGRAM_TOKEN = StrV("secret")
    /\ TELEGRAM_CHAT_ID = StrV("secret")
    /\ pc = "standalone"
    /\ last_sended_error_message = ""
    /\ last_sended_status_message = ""
    /\ timestamp = 0
    /\ error = NoError
    /\ exit_message = ""
    /\ check_tokens_calls = 0
    /\ api_calls = 0
    /\ sleeps = 0
    /\ cur = EmptyLog
    /\ prev = EmptyLog
    /\ delivered_status = ""
    /\ delivered_error = ""
    /\ call \in {[fn |-> "parse_status", arg |-> x] : x \in ParseInputs}
               \cup {[fn |-> "check_response", arg |-> x] : x \in CheckInputs}
    /\ results = <<>>

\* lines 104-121 called on a record; the record is not assigned to
CallParseStatus ==
    /\ pc = "standalone"
    /\ call.fn = "parse_status"
    /\ Len(results) < CallsPerArgument
    /\ results' = Append(results, [out |-> parse_status(call.arg),
                                   arg |-> call.arg])
    /\ UNCHANGED <<PRACTICUM_TOKEN, TELEGRAM_TOKEN, TELEGRAM_CHAT_ID, pc,
                   last_sended_error_message, last_sended_status_message,
                   timestamp, error, exit_message, check_tokens_calls,
                   api_calls, sleeps, cur, prev, delivered, call>>

\* lines 88-101 called on a body; the body is not assigned to
CallCheckResponse ==
    /\ pc = "standalone"
    /\ call.fn = "check_response"
    /\ Len(results) < CallsPerArgument
    /\ results' = Append(results, [out |-> check_response(call.arg),
                                   arg |-> call.arg])
    /\ UNCHANGED <<PRACTICUM_TOKEN, TELEGRAM_TOKEN, TELEGRAM_CHAT_ID, pc,
                   last_sended_error_message, last_sended_status_message,
                   timestamp, error, exit_message, check_tokens_calls,
                   api_calls, sleeps, cur, prev, delivered, call>>

NextFunctions ==
    \/ CallParseStatus
    \/ CallCheckResponse

SpecFunctions == InitFunctions /\ [][NextFunctions]_vars

TypeOK ==
    /\ pc \in {"check_tokens", "terminated", "loop", "except", "finally",
               "crashed"}
    /\ api_calls \in 0..MaxIter
    /\ sleeps \in 0..MaxIter

-----------------------------------------------------------------------------
(* Reading the record of an iteration *)

\* the iteration has been through its try block
Ran(log) == log.calls # <<>>

\* the invocations of send_message of one kind, in order
SendsOf(log, kind) ==
    SelectSeq(log.outbox, LAMBDA m : m.kind = kind)

StatusSends(log) == Len(SendsOf(log, "status"))
ErrorSends(log) == Len(SendsOf(log, "error"))

\* the delivery of the iteration's status message was attempted and failed
StatusDeliveryFailed(log) ==
    \E i \in 1..Len(log.outbox) :
        log.outbox[i].kind = "status" /\ log.outbox[i].outcome # "ok"

\* the delivery of the iteration's diagnostic was attempted and failed
ErrorDeliveryFailed(log) ==
    \E i \in 1..Len(log.outbox) :
        log.outbox[i].kind = "error" /\ log.outbox[i].outcome # "ok"

\* the API call, check_response and parse_status succeeded on a non-empty
\* list: the iteration interpreted a status message
Interpreted(log) == log.status_message # <<>>

-----------------------------------------------------------------------------
(* C1 *)

\* C1 as stated: in an iteration that interpreted a message the Notifier is
\* invoked with it iff it differs from the last status message sent, and
\* two consecutive iterations with the identical message invoke the Notifier
\* exactly once across both, two with different messages twice.
C1_AsStated ==
    /\ Interpreted(cur) =>
          (StatusSends(cur) = 1 <=> cur.status_message[1] # cur.start_status)
    /\ (Interpreted(prev) /\ Interpreted(cur)) =>
          StatusSends(prev) + StatusSends(cur) =
              IF prev.status_message = cur.status_message THEN 1 ELSE 2

\* C1 amended: in an iteration that interpreted a message the Notifier is
\* invoked with exactly that message, once, iff it differs from
\* last_sended_status_message as the iteration found it, and not at all
\* otherwise.  Of two consecutive such iterations with the identical message
\* the second invokes the Notifier iff the first one's delivery failed; of
\* two with different messages the second invokes it whenever the first
\* one's delivery did not fail.
C1_StatusDedup ==
    /\ Interpreted(cur) =>
          /\ StatusSends(cur) =
                IF cur.status_message[1] # cur.start_status THEN 1 ELSE 0
          /\ \A i \in 1..Len(cur.outbox) :
                cur.outbox[i].kind = "status" =>
                    cur.outbox[i].message = cur.status_message[1]
    /\ (Interpreted(prev) /\ Interpreted(cur)) =>
          /\ prev.status_message = cur.status_message =>
                StatusSends(cur) = IF StatusDeliveryFailed(prev) THEN 1 ELSE 0
          /\ (prev.status_message # cur.status_message
              /\ ~StatusDeliveryFailed(prev)) => StatusSends(cur) = 1

\* two consecutive iterations interpret the same message; the first sent it
\* and it was delivered, the second does not send it
C1_Witness ==
    /\ Interpreted(prev) /\ Interpreted(cur)
    /\ prev.status_message = cur.status_message
    /\ StatusSends(prev) = 1 /\ ~StatusDeliveryFailed(prev)
    /\ StatusSends(cur) = 0

-----------------------------------------------------------------------------
(* C2 *)

\* check_tokens has succeeded
GuardPassed == check_tokens_calls = 1 /\ exit_message = ""

\* C2 as stated: once check_tokens has succeeded main never ends, whatever
\* the API call, the validation, the interpretation and the delivery do:
\* control stays in the loop, and main ends only through a failure of
\* check_tokens.
C2_LoopNeverTerminates ==
    /\ GuardPassed => pc \in {"loop", "except", "finally"}
    /\ pc \in {"terminated", "crashed"} => ~GuardPassed

-----------------------------------------------------------------------------
(* C3 *)

\* C3 as stated: when the delivery of a status message fails, whatever the
\* failure, no diagnostic is constructed or sent in that iteration, there is
\* no second delivery attempt and the error-dedup state stays as it was.
C3_DeliveryFailureNotAnIterationFailure ==
    \A log \in {cur, prev} :
        StatusDeliveryFailed(log) =>
            /\ log.diagnostic = <<>>
            /\ Len(log.outbox) = 1
            /\ (log = cur => last_sended_error_message = log.start_error)

-----------------------------------------------------------------------------
(* C4 *)

\* C4 as stated: after the Notifier was invoked with a status message m the
\* last-status-sent field equals m, and after it was invoked with a
\* diagnostic e the last-error-sent field equals e, delivered or not.
C4_AsStated ==
    \A i \in 1..Len(cur.outbox) :
        /\ cur.outbox[i].kind = "status" =>
              last_sended_status_message = cur.outbox[i].message
        /\ cur.outbox[i].kind = "error" =>
              last_sended_error_message = cur.outbox[i].message

\* C4 amended: the dedup state is updated only when the delivery succeeded.
\* After the Notifier was invoked with a status message m (a diagnostic e)
\* the last-status-sent (last-error-sent) field equals m (e) if the delivery
\* call returned, and keeps the value it had at the start of the iteration,
\* which differs from m (e), if the delivery failed; a message produced
\* again by the next iteration is then sent again.
C4_DedupUpdatedOnSuccessOnly ==
    /\ \A i \in 1..Len(cur.outbox) :
          LET m == cur.outbox[i]
          IN  /\ (m.kind = "status" /\ m.outcome = "ok") =>
                    last_sended_status_message = m.message
              /\ (m.kind = "status" /\ m.outcome # "ok") =>
                    /\ last_sended_status_message = cur.start_status
                    /\ last_sended_status_message # m.message
              /\ (m.kind = "error" /\ m.outcome = "ok") =>
                    last_sended_error_message = m.message
              /\ (m.kind = "error" /\ m.outcome # "ok") =>
                    /\ last_sended_error_message = cur.start_error
                    /\ last_sended_error_message # m.message
    /\ (Interpreted(prev) /\ Interpreted(cur)
        /\ prev.status_message = cur.status_message
        /\ StatusDeliveryFailed(prev)) => StatusSends(cur) = 1
    /\ (prev.diagnostic # <<>> /\ cur.diagnostic # <<>>
        /\ prev.diagnostic = cur.diagnostic
        /\ ErrorDeliveryFailed(prev)) => ErrorSends(cur) = 1

\* a diagnostic whose delivery failed is not recorded, and the next
\* iteration, failing the same way, sends it again
C4_Witness ==
    /\ prev.diagnostic # <<>> /\ prev.diagnostic = cur.diagnostic
    /\ ErrorDeliveryFailed(prev)
    /\ ErrorSends(cur) = 1
    /\ StatusSends(prev) = 0

-----------------------------------------------------------------------------
(* C5 *)

\* C5 as stated: when the delivery of a status message fails the cursor is
\* still advanced, in that iteration, to the response's current_date when
\* the response has one.
C5_AsStated ==
    (StatusDeliveryFailed(cur) /\ cur.current_date # <<>>) =>
        timestamp = cur.current_date[1]

\* C5 amended: when the delivery of a status message fails the message is
\* not recorded as sent and the poll cursor is not advanced in that
\* iteration: it keeps the value the iteration started with, whether or not
\* the response has a current_date.  The iteration still goes on to its
\* sleep.  The cursor is advanced to current_date only when the delivery
\* returned.
C5_CursorKeptOnDeliveryFailure ==
    /\ StatusDeliveryFailed(cur) =>
          /\ timestamp = cur.start_timestamp
          /\ last_sended_status_message = cur.start_status
          /\ pc \in {"except", "finally"}
    /\ (StatusSends(cur) = 1 /\ ~StatusDeliveryFailed(cur)
        /\ cur.current_date # <<>>) => timestamp = cur.current_date[1]
    /\ StatusDeliveryFailed(prev) => prev.slept = RETRY_PERIOD

\* the delivery of a status message failed in an iteration whose response
\* has a current_date other than the cursor, and the cursor did not move
C5_Witness ==
    /\ StatusDeliveryFailed(cur)
    /\ cur.current_date # <<>>
    /\ cur.current_date[1] # cur.start_timestamp
    /\ timestamp = cur.start_timestamp

-----------------------------------------------------------------------------
(* C6 *)

\* the iteration went through the handler of line 156
Failed(log) == log.diagnostic # <<>>

\* C6 as stated: a failing iteration invokes the Notifier with its
\* diagnostic iff the diagnostic differs from the last error message sent;
\* consecutive failing iterations with the identical diagnostic invoke it
\* once, and a failure with another diagnostic is notified again.
C6_AsStated ==
    /\ \A log \in {cur, prev} :
          Failed(log) =>
              (ErrorSends(log) = 1 <=> log.diagnostic[1] # log.start_error)
    /\ (Failed(prev) /\ Failed(cur) /\ prev.diagnostic = cur.diagnostic
        /\ prev.diagnostic[1] # prev.start_error) =>
          ErrorSends(prev) + ErrorSends(cur) = 1
    /\ (Failed(prev) /\ Failed(cur) /\ prev.diagnostic # cur.diagnostic) =>
          ErrorSends(cur) = 1

\* C6 amended: a failing iteration invokes the Notifier with its diagnostic,
\* once, iff the diagnostic differs from last_sended_error_message as the
\* iteration found it, which is the last diagnostic whose delivery returned.
\* Of two consecutive failing iterations with the identical diagnostic the
\* second invokes the Notifier iff the first one's delivery failed; of two
\* with different diagnostics the second invokes it whenever the first
\* one's delivery did not fail (so A, B, A gives three notifications when
\* the deliveries succeed).
C6_ErrorDedup ==
    /\ \A log \in {cur, prev} :
          Failed(log) =>
              /\ ErrorSends(log) =
                    IF log.diagnostic[1] # log.start_error THEN 1 ELSE 0
              /\ \A i \in 1..Len(log.outbox) :
                    log.outbox[i].kind = "error" =>
                        log.outbox[i].message = log.diagnostic[1]
    /\ (Failed(prev) /\ Failed(cur)) =>
          /\ prev.diagnostic = cur.diagnostic =>
                ErrorSends(cur) = IF ErrorDeliveryFailed(prev) THEN 1 ELSE 0
          /\ (prev.diagnostic # cur.diagnostic
              /\ ~ErrorDeliveryFailed(prev)) => ErrorSends(cur) = 1

\* the errors A, B, A: A was the last diagnostic delivered when the previous
\* iteration failed with B and delivered it, and this iteration fails with
\* A and sends it again
C6_Witness ==
    /\ Failed(prev) /\ Failed(cur)
    /\ prev.start_error = cur.diagnostic[1]
    /\ prev.diagnostic # cur.diagnostic
    /\ ErrorSends(prev) = 1 /\ ~ErrorDeliveryFailed(prev)
    /\ ErrorSends(cur) = 1

-----------------------------------------------------------------------------
(* C7 *)

\* the cursor the server's answer asks for: current_date, else the old one
ExpectedCursor(log) ==
    IF log.current_date # <<>> THEN log.current_date[1]
    ELSE log.start_timestamp

\* the API call, the validation and the interpretation succeeded
FetchedAndInterpreted(log) ==
    Ran(log) /\ (log.failure = NoError \/ StatusDeliveryFailed(log))

\* the first API call queries from the process start time
FirstCursorIsStartTime ==
    (Ran(cur) /\ api_calls = 1) =>
        cur.from_date \in {ToString(t) : t \in StartTimes}

\* C7 as stated: after an iteration whose API call, validation and
\* interpretation succeed the next API call's from_date is the response's
\* current_date if it has one and the previous cursor if not; the first
\* cursor is the process start time.
C7_AsStated ==
    /\ FirstCursorIsStartTime
    /\ (FetchedAndInterpreted(prev) /\ Ran(cur)) =>
          cur.from_date = ToString(ExpectedCursor(prev))

\* C7 amended: after an iteration whose API call, validation and
\* interpretation succeed and whose status delivery, if one was attempted,
\* returned, the next API call's from_date is the response's current_date
\* if it has one and the previous cursor if not; after an iteration whose
\* status delivery failed the next call reuses the previous cursor; the
\* first cursor is the process start time.
C7_CursorAdvancement ==
    /\ FirstCursorIsStartTime
    /\ (Ran(prev) /\ prev.failure = NoError /\ Ran(cur)) =>
          cur.from_date = ToString(ExpectedCursor(prev))
    /\ (StatusDeliveryFailed(prev) /\ Ran(cur)) =>
          cur.from_date = prev.from_date
    /\ Ran(cur) => cur.from_date = ToString(cur.start_timestamp)

\* the previous response carried a current_date other than the cursor and
\* this iteration queries from it; this one's response has none
C7_Witness ==
    /\ Ran(prev) /\ prev.failure = NoError /\ Ran(cur)
    /\ prev.current_date # <<>>
    /\ prev.current_date[1] # prev.start_timestamp
    /\ cur.from_date = ToString(prev.current_date[1])
    /\ cur.current_date = <<>> /\ cur.failure = NoError
    /\ timestamp = prev.current_date[1]

-----------------------------------------------------------------------------
(* C8 *)

\* the diagnostics of the three failures of the API Client
ApiDiagnostic(api) ==
    CASE api = "RequestException" ->
           "Sboy v rabote programmy: Oshibka pri zaprose k API: "
           \o "connection refused. (from get_api_answer)"
      [] api = "HTTP 500" ->
           "Sboy v rabote programmy: HTTP oshibka pri zaprose k endpointu "
           \o "API. (from get_api_answer)"
      [] api = "JSONDecodeError" ->
           "Sboy v rabote programmy: Expecting value"

\* requests.get raised, answered with another code than 200, or sent a body
\* that is not JSON
ApiFailed(log) == Ran(log) /\ log.api # "ok"

\* the calls of the iteration, as a set
Called(log) == {log.calls[i] : i \in 1..Len(log.calls)}

\* C8: a failure of the API Client (transport, status code, JSON) reaches
\* the handler of iteration failures: check_response and parse_status are
\* not called, no status message is sent, and the diagnostic is built and
\* goes through the error-dedup comparison.
C8_ApiFailurePropagates ==
    /\ \A log \in {cur, prev} :
          ApiFailed(log) =>
              /\ "check_response" \notin Called(log)
              /\ "parse_status" \notin Called(log)
              /\ log.status_message = <<>>
              /\ StatusSends(log) = 0
              /\ log.failure # NoError
    /\ (ApiFailed(cur) /\ pc = "except") =>
          CaughtAsException(error) /\ error = cur.failure
    /\ ApiFailed(cur) => pc \in {"except", "finally"}
    /\ \A log \in {cur, prev} :
          (ApiFailed(log) /\ (log = prev \/ pc = "finally")) =>
              /\ log.diagnostic = <<ApiDiagnostic(log.api)>>
              /\ ErrorSends(log) =
                    IF ApiDiagnostic(log.api) # log.start_error THEN 1 ELSE 0

\* requests.get raised and the iteration built and sent the diagnostic
C8_Witness ==
    /\ cur.api = "RequestException"
    /\ pc = "finally"
    /\ cur.calls = <<"get_api_answer", "send_message">>
    /\ cur.diagnostic = <<ApiDiagnostic("RequestException")>>
    /\ ErrorSends(cur) = 1

-----------------------------------------------------------------------------
(* C9 *)

\* the number of calls of get_api_answer in the iteration
ApiCallsIn(log) ==
    Cardinality({i \in 1..Len(log.calls) : log.calls[i] = "get_api_answer"})

\* C9: every iteration makes one API call and ends with one sleep of
\* RETRY_PERIOD, failed or not: API calls and sleeps alternate, an API call
\* is made only when every earlier one was followed by its sleep.
C9_OneCallOneSleep ==
    /\ sleeps <= api_calls /\ api_calls <= sleeps + 1
    /\ pc \in {"check_tokens", "terminated"} => api_calls = 0 /\ sleeps = 0
    /\ pc \in {"loop", "crashed"} => api_calls = sleeps /\ ~Ran(cur)
    /\ pc \in {"except", "finally"} => api_calls = sleeps + 1 /\ Ran(cur)
    /\ \A log \in {cur, prev} : Ran(log) => ApiCallsIn(log) = 1
    /\ cur.slept = 0
    /\ Ran(prev) <=> sleeps > 0
    /\ Ran(prev) => prev.slept = RETRY_PERIOD

\* two iterations are over, the second one failed, and both have slept
C9_Witness ==
    /\ pc = "loop"
    /\ api_calls = 2 /\ sleeps = 2
    /\ prev.failure # NoError
    /\ prev.slept = RETRY_PERIOD

-----------------------------------------------------------------------------
(* C10 *)

\* a credential is non-empty
Present(value) == value.t = "str" /\ value.v # ""

\* the names of the credentials that are unset or empty
MissingCredentials ==
    {name \in {"PRACTICUM_TOKEN", "TELEGRAM_TOKEN", "TELEGRAM_CHAT_ID"} :
        CASE name = "PRACTICUM_TOKEN" -> ~Present(PRACTICUM_TOKEN)
          [] name = "TELEGRAM_TOKEN" -> ~Present(TELEGRAM_TOKEN)
          [] name = "TELEGRAM_CHAT_ID" -> ~Present(TELEGRAM_CHAT_ID)}

\* the text of the error for each set of missing credentials
TokenErrorText(missing) ==
    CASE missing = {"PRACTICUM_TOKEN"} ->
           "Otsutstvuyut dannye: PRACTICUM_TOKEN"
      [] missing = {"TELEGRAM_TOKEN"} ->
           "Otsutstvuyut dannye: TELEGRAM_TOKEN"
      [] missing = {"TELEGRAM_CHAT_ID"} ->
           "Otsutstvuyut dannye: TELEGRAM_CHAT_ID"
      [] missing = {"PRACTICUM_TOKEN", "TELEGRAM_TOKEN"} ->
           "Otsutstvuyut dannye: PRACTICUM_TOKEN, TELEGRAM_TOKEN"
      [] missing = {"PRACTICUM_TOKEN", "TELEGRAM_CHAT_ID"} ->
           "Otsutstvuyut dannye: PRACTICUM_TOKEN, TELEGRAM_CHAT_ID"
      [] missing = {"TELEGRAM_TOKEN", "TELEGRAM_CHAT_ID"} ->
           "Otsutstvuyut dannye: TELEGRAM_TOKEN, TELEGRAM_CHAT_ID"
      [] missing = {"PRACTICUM_TOKEN", "TELEGRAM_TOKEN", "TELEGRAM_CHAT_ID"} ->
           "Otsutstvuyut dannye: PRACTICUM_TOKEN, TELEGRAM_TOKEN, "
           \o "TELEGRAM_CHAT_ID"
      [] missing = {} -> ""

\* C10: check_tokens succeeds iff the three credentials are non-empty; else
\* it fails with an error that names every missing credential and no other;
\* it is called once, before the loop, and after its failure there is no
\* API call, no message and no sleep.
C10_FatalConfigPath ==
    /\ check_tokens_calls <= 1
    /\ pc = "check_tokens" <=> check_tokens_calls = 0
    /\ check_tokens_calls = 1 =>
          /\ pc = "terminated" <=> MissingCredentials # {}
          /\ exit_message = TokenErrorText(MissingCredentials)
    /\ pc = "terminated" =>
          /\ error.cls = "TokenError"
          /\ error.text = exit_message
          /\ api_calls = 0 /\ sleeps = 0
          /\ cur = EmptyLog /\ prev = EmptyLog
          /\ last_sended_error_message = ""
          /\ last_sended_status_message = ""
    /\ (api_calls > 0 \/ Ran(cur) \/ Ran(prev)) =>
          MissingCredentials = {} /\ check_tokens_calls = 1

\* main ended on a TokenError that names the two missing credentials, one
\* unset and one empty
C10_Witness ==
    /\ pc = "terminated"
    /\ PRACTICUM_TOKEN = NoneV
    /\ Present(TELEGRAM_TOKEN)
    /\ TELEGRAM_CHAT_ID = StrV("")
    /\ exit_message = "Otsutstvuyut dannye: PRACTICUM_TOKEN, TELEGRAM_CHAT_ID"

-----------------------------------------------------------------------------
(* C11 *)

\* the pass through the try block raised nothing
Succeeded(log) == Ran(log) /\ log.failure = NoError

\* C11: a successful iteration does not clear the error-dedup state.  The
\* field keeps its value through an iteration without failure, so when a
\* diagnostic was delivered, successful iterations follow and an iteration
\* then fails with the identical diagnostic, the Notifier is not invoked
\* for it.
C11_ErrorDedupSurvivesSuccess ==
    /\ Succeeded(cur) =>
          /\ last_sended_error_message = cur.start_error
          /\ cur.diagnostic = <<>> /\ ErrorSends(cur) = 0
    /\ (Succeeded(prev) /\ Ran(cur)) => cur.start_error = prev.start_error
    /\ (Succeeded(prev) /\ Failed(cur)
        /\ cur.diagnostic[1] = prev.start_error) =>
          /\ ErrorSends(cur) = 0
          /\ cur.diagnostic[1] = delivered_error

\* a diagnostic was delivered, the previous iteration succeeded and this
\* one fails with the same diagnostic, which is not sent
C11_Witness ==
    /\ Succeeded(prev) /\ Interpreted(prev)
    /\ prev.start_error # ""
    /\ prev.start_error = delivered_error
    /\ Failed(cur)
    /\ cur.diagnostic[1] = prev.start_error
    /\ cur.outbox = <<>>
    /\ pc = "finally"

-----------------------------------------------------------------------------
(* C12 *)

\* the verdict of each known status
VerdictText(status) ==
    CASE status = "approved" ->
           "Rabota proverena: revyueru vsyo ponravilos. Ura!"
      [] status = "reviewing" -> "Rabota vzyata na proverku revyuerom."
      [] status = "rejected" ->
           "Rabota proverena: u revyuera est zamechaniya."

\* what parse_status has to give for a record
ParseReference(record) ==
    LET keys == DOMAIN record.v
    IN  IF "homework_name" \notin keys /\ "status" \notin keys
        THEN Raise("KeyError",
                   "Otsutstvuyut ozhidaemye klyuchi v obekte DZ: "
                   \o "homework_name, status. (from parse_status)")
        ELSE IF "homework_name" \notin keys
        THEN Raise("KeyError",
                   "Otsutstvuyut ozhidaemye klyuchi v obekte DZ: "
                   \o "homework_name. (from parse_status)")
        ELSE IF "status" \notin keys
        THEN Raise("KeyError",
                   "Otsutstvuyut ozhidaemye klyuchi v obekte DZ: "
                   \o "status. (from parse_status)")
        ELSE IF record.v["status"] \notin {"approved", "reviewing", "rejected"}
        THEN Raise("ValueError",
                   "Neozhidannyy status domashney raboty: "
                   \o record.v["status"] \o ". (from parse_status)")
        ELSE Return("Izmenilsya status proverki raboty \""
                    \o record.v["homework_name"] \o "\". "
                    \o VerdictText(record.v["status"]))

\* C12: on every record of ParseInputs parse_status gives what the
\* reference gives: the error that lists exactly the missing keys, before
\* any look at the status; else the error that names the unknown status;
\* else the message with the name and the verdict of the table.  Two calls
\* on the same record give the same.
C12_ParseStatusReference ==
    call.fn = "parse_status" =>
        /\ \A i \in 1..Len(results) :
              results[i].out = ParseReference(call.arg)
        /\ Len(results) = 2 => results[1].out = results[2].out

\* a record without its name and with an unknown status was interpreted
\* twice: the error lists the missing key
C12_Witness ==
    /\ call.fn = "parse_status"
    /\ DOMAIN call.arg.v = {"status", "lesson_name"}
    /\ call.arg.v["status"] = "in_review"
    /\ Len(results) = 2
    /\ results[2].out.raised
    /\ results[2].out.exc.cls = "KeyError"

-----------------------------------------------------------------------------
(* C13 *)

\* how Python prints the type of a value
ClassText(value) ==
    CASE value.t = "none" -> "<class 'NoneType'>"
      [] value.t = "str" -> "<class 'str'>"
      [] value.t = "int" -> "<class 'int'>"
      [] value.t = "list" -> "<class 'list'>"
      [] value.t = "dict" -> "<class 'dict'>"

\* the body is a mapping with the key homeworks whose value is a list
WellShaped(body) ==
    /\ body.t = "dict"
    /\ "homeworks" \in DOMAIN body.v
    /\ body.v["homeworks"].t = "list"

\* what check_response has to give for a body
CheckReference(body) ==
    IF body.t # "dict"
    THEN Raise("TypeError",
               "Tip otveta API " \o ClassText(body)
               \o ". Ozhidaemyy - slovar. (from check_response)")
    ELSE IF "homeworks" \notin DOMAIN body.v
    THEN Raise("KeyError",
               "V otvete API otsutstvuet ozhidaemyy klyuch: homeworks. "
               \o "(from check_response)")
    ELSE IF body.v["homeworks"].t # "list"
    THEN Raise("TypeError",
               "Pod klyuchem homeworks poluchen "
               \o ClassText(body.v["homeworks"])
               \o ". Ozhidaemyy tip - spisok. (from check_response)")
    ELSE Return(NoneV)

\* C13: check_response accepts a body iff it is a mapping with the key
\* homeworks whose value is a list; it fails for a value that is no mapping,
\* then for a mapping without homeworks (the error names the key), then for
\* a homeworks that is no list (the error names its type); when it accepts
\* it returns nothing, and its argument is the same after the call.
C13_CheckResponseReference ==
    call.fn = "check_response" =>
        \A i \in 1..Len(results) :
            /\ ~results[i].out.raised <=> WellShaped(call.arg)
            /\ results[i].out = CheckReference(call.arg)
            /\ ~results[i].out.raised => results[i].out.value = NoneV
            /\ results[i].arg = call.arg

\* check_response was called on {"homeworks": "not-a-list", "current_date":
\* ...} and failed on the type of homeworks
C13_Witness ==
    /\ call.fn = "check_response"
    /\ call.arg.t = "dict"
    /\ DOMAIN call.arg.v = {"homeworks", "current_date"}
    /\ call.arg.v["homeworks"] = StrV("not-a-list")
    /\ Len(results) = 1
    /\ results[1].out.raised
    /\ results[1].out.exc.cls = "TypeError"

-----------------------------------------------------------------------------
(* C14 *)

\* the number of calls of parse_status in the iteration
ParseCallsIn(log) ==
    Cardinality({i \in 1..Len(log.calls) : log.calls[i] = "parse_status"})

\* C14: of a valid response only the first record is examined.  With an
\* empty list nothing is interpreted or sent and the cursor goes to
\* current_date.  With a non-empty list parse_status is called once, and
\* what the iteration interprets, sends or raises is what the first record
\* alone gives, however many records follow it and whether or not they are
\* malformed.
C14_OnlyHeadExamined ==
    /\ cur.homeworks.n = 0 =>
          /\ cur.calls = <<"get_api_answer", "check_response">>
          /\ cur.status_message = <<>>
          /\ cur.outbox = <<>>
          /\ cur.failure = NoError
          /\ pc = "finally"
          /\ timestamp = ExpectedCursor(cur)
    /\ cur.homeworks.n > 0 =>
          LET first == ParseReference(cur.homeworks.head[1])
          IN  /\ ParseCallsIn(cur) = 1
              /\ first.raised =>
                    /\ cur.failure = first.exc
                    /\ cur.status_message = <<>>
                    /\ StatusSends(cur) = 0
                    /\ timestamp = cur.start_timestamp
              /\ ~first.raised =>
                    /\ cur.status_message = <<first.value>>
                    /\ StatusSends(cur) =
                          IF first.value # cur.start_status THEN 1 ELSE 0
                    /\ \A i \in 1..Len(cur.outbox) :
                          cur.outbox[i].kind = "status" =>
                              cur.outbox[i].message = first.value
                    /\ cur.failure = NoError =>
                          timestamp = ExpectedCursor(cur)

\* the list has a well-formed first record followed by a malformed one; the
\* first one's message was sent and delivered and the cursor advanced
C14_Witness ==
    /\ cur.homeworks.n = 2
    /\ cur.homeworks.later_raises
    /\ StatusSends(cur) = 1 /\ ~StatusDeliveryFailed(cur)
    /\ cur.failure = NoError
    /\ cur.current_date # <<>>
    /\ timestamp = cur.current_date[1]

-----------------------------------------------------------------------------
(* C15 *)

\* the API call, check_response or parse_status raised: the try block was
\* left before any send
FailedInFetchOrParse(log) ==
    Ran(log) /\ log.failure # NoError /\ StatusSends(log) = 0

\* C15: an iteration in which the API call, check_response or parse_status
\* fails leaves timestamp and last_sended_status_message as it found them,
\* also through its handler and its sleep; the next iteration queries with
\* the same from_date and starts from the same last status message, so that
\* a status message equal to the one recorded before the failure is not
\* sent again.
C15_FailureKeepsCursorAndStatus ==
    /\ FailedInFetchOrParse(cur) =>
          /\ timestamp = cur.start_timestamp
          /\ last_sended_status_message = cur.start_status
    /\ (FailedInFetchOrParse(prev) /\ ~Ran(cur)) =>
          /\ timestamp = prev.start_timestamp
          /\ last_sended_status_message = prev.start_status
    /\ (FailedInFetchOrParse(prev) /\ Ran(cur)) =>
          /\ cur.from_date = prev.from_date
          /\ cur.start_timestamp = prev.start_timestamp
          /\ cur.start_status = prev.start_status
          /\ (Interpreted(cur) /\ cur.status_message[1] = prev.start_status)
                => StatusSends(cur) = 0

\* a status message was delivered, the next iteration failed before any
\* send, and the one after it interprets the same status message again and
\* keeps quiet, querying from the cursor of the failed iteration
C15_Witness ==
    /\ FailedInFetchOrParse(prev)
    /\ prev.start_status # ""
    /\ prev.start_timestamp \notin StartTimes
    /\ Interpreted(cur)
    /\ cur.status_message[1] = prev.start_status
    /\ StatusSends(cur) = 0
    /\ cur.from_date = prev.from_date

-----------------------------------------------------------------------------
(* C16 *)

\* the invocations of send_message of the iteration that returned
Delivered(log) == SelectSeq(log.outbox, LAMBDA m : m.outcome = "ok")

\* C16: in every iteration at most one invocation of send_message returns
\* without an exception: an iteration never delivers both a status message
\* and a diagnostic, and the diagnostic is attempted only when no status
\* message was delivered.
C16_AtMostOneDelivery ==
    \A log \in {cur, prev} :
        /\ Len(Delivered(log)) <= 1
        /\ Len(log.outbox) <= 2
        /\ ErrorSends(log) > 0 =>
              /\ \A i \in 1..Len(Delivered(log)) :
                    Delivered(log)[i].kind # "status"
              /\ log.failure # NoError

\* both kinds of message were attempted in one iteration, the status
\* message failed with an exception that is not Telegram's and the
\* diagnostic about it was delivered
C16_Witness ==
    /\ StatusSends(cur) = 1
    /\ ErrorSends(cur) = 1
    /\ StatusDeliveryFailed(cur)
    /\ ~ErrorDeliveryFailed(cur)
    /\ Len(Delivered(cur)) = 1

-----------------------------------------------------------------------------
(* C17 *)

\* the messages of one kind whose delivery the iteration attempted in vain
FailedMessages(log, kind) ==
    {log.outbox[i].message :
        i \in {j \in 1..Len(log.outbox) :
                  log.outbox[j].kind = kind /\ log.outbox[j].outcome # "ok"}}

\* C17: in every state of the loop last_sended_status_message is the empty
\* string or the last status message whose send_message call returned, and
\* last_sended_error_message is the empty string or the last diagnostic
\* whose send_message call returned; a message whose delivery failed in the
\* iteration is in neither field.
C17_FieldsHoldLastDelivered ==
    /\ last_sended_status_message = delivered_status
    /\ last_sended_error_message = delivered_error
    /\ last_sended_status_message \notin FailedMessages(cur, "status")
    /\ last_sended_error_message \notin FailedMessages(cur, "error")
    /\ StatusDeliveryFailed(cur) =>
          last_sended_status_message = cur.start_status
    /\ ErrorDeliveryFailed(cur) =>
          last_sended_error_message = cur.start_error

\* both fields hold a delivered message, and the iteration then failed to
\* deliver a new diagnostic, which left the field with the older one
C17_Witness ==
    /\ delivered_status # ""
    /\ delivered_error # ""
    /\ ErrorDeliveryFailed(cur)
    /\ cur.diagnostic # <<>>
    /\ cur.diagnostic[1] # last_sended_error_message
    /\ last_sended_error_message = delivered_error
    /\ last_sended_status_message = delivered_status

====
